---------------------------- MODULE Spec2Model ----------------------------
(***************************************************************************)
(* The directory-listing page (PageItemList / PageItemListRow) as a state  *)
(* machine.  Two generations of the page are modelled:                     *)
(*   "part_002"  the page with loading/error status for search-everywhere  *)
(*               and a guarded RegExp (src/unnamed/part_002);              *)
(*   "part_000"  the page with WebSocket thumbnails                        *)
(*               (src/unnamed/part_000).                                   *)
(* Every React event handler is one action: the state updates it makes     *)
(* followed by the re-render they cause.                                   *)
(***************************************************************************)
EXTENDS Integers, Sequences, FiniteSets, TLC

VARIABLES
  variant,               \* which generation of the page is loaded
  items,                 \* the base item array handed to PageItemList
  loaded,                \* history: the item array as it was at page load
  searchInput,           \* useState("")   : the pattern in the search box
  caseSensitive,         \* useState(false)
  sortCol,               \* useState("filename")
  sortOrder,             \* useState("dirsFirst")
  filteredItems,         \* the list computed by the last render
  regexWarning,          \* TRUE iff the last render shows "invalid regex"
  renderFailed,          \* TRUE iff a render threw (the tree is torn down)
  clicks,                \* history: the last header clicks on one column
  isSearchingEverywhere, \* useState(false)
  searchResultsLoading,  \* useState(false)            (part_002)
  searchError,           \* useState(undefined)        (part_002)
  searchResults,         \* useState([])
  requests,              \* the fetches issued and not yet settled
  issued,                \* history: number of search requests issued
  storedBy,              \* history: the requests that last set the results and the error
  rows,                  \* per item: the PageItemListRow instance (part_000)
  socket,                \* useState(null): the socket once onopen has run
  readyState,            \* the WebSocket's readyState
  localStorage,          \* window.localStorage, thumbnail name -> response
  written,               \* history: calls of localStorage.setItem per name
  gotThumbnail,          \* identity of the EventTarget made by the last render
  wire                   \* thumbnail names sent and not yet answered

listVars   == <<variant, items, loaded, searchInput, caseSensitive, sortCol,
                sortOrder, filteredItems, regexWarning, renderFailed, clicks>>
searchVars == <<isSearchingEverywhere, searchResultsLoading, searchError,
                searchResults, requests, issued, storedBy>>
thumbVars  == <<rows, socket, readyState, localStorage, written, gotThumbnail, wire>>
vars       == <<listVars, searchVars, thumbVars>>

---------------------------------------------------------------------------
(* Bounds *)

MaxItems == 3

\* Requests a row may have outstanding on the socket before the model
\* stops issuing more.
MaxWire == 2

\* Rows of the list in the thumbnail model.
MaxRows == 2

\* Search requests the model issues.
MaxRequests == 2

\* Calls of socket.send a row may make before the model stops re-rendering it.
MaxSends == 2

---------------------------------------------------------------------------
(* Values *)

NULL == "null"

SortCols == <<"filename", "created", "modified", "accessed">>

SortOrders == {"dirsFirst", "asc", "desc"}

\* A timestamp string "2024-01-01T<hour>:00:00<+/-offset>:00" is kept as
\* the two fields that vary in it.
Stamp(h, off) == [hour |-> h, offset |-> off]

\* The entries the server may list.  Names are sequences of characters.
ItemPool ==
  << [basename |-> "b.txt", filename |-> <<"b", ".", "t", "x", "t">>, kind |-> "File",
      created |-> Stamp(1, -1), modified |-> Stamp(2, 1), accessed |-> Stamp(2, 0),
      thumbnail_name |-> "t1"],
     [basename |-> "A.txt", filename |-> <<"A", ".", "t", "x", "t">>, kind |-> "File",
      created |-> Stamp(2, 1), modified |-> Stamp(1, 0), accessed |-> Stamp(1, -1),
      thumbnail_name |-> "t2"],
     [basename |-> "a.txt", filename |-> <<"a", ".", "t", "x", "t">>, kind |-> "File",
      created |-> Stamp(1, 0), modified |-> Stamp(0, 0), accessed |-> Stamp(3, 1),
      thumbnail_name |-> NULL],
     [basename |-> "B", filename |-> <<"B">>, kind |-> "Dir",
      created |-> Stamp(0, 0), modified |-> Stamp(1, -1), accessed |-> Stamp(1, 0),
      thumbnail_name |-> NULL] >>

\* The patterns the user may type.
Patterns == {<<>>, <<"a">>, <<"B">>, <<"(">>}

\* The lists of at most n distinct members of S.
InjectiveSeqs(S, n) ==
  UNION {{s \in [1..k -> S] : \A i, j \in 1..k : i # j => s[i] # s[j]} : k \in 0..n}

ItemLists ==
  {[i \in 1..Len(ix) |-> ItemPool[ix[i]]] : ix \in InjectiveSeqs(DOMAIN ItemPool, MaxItems)}

---------------------------------------------------------------------------
(* Strings, dates and regular expressions *)

\* String.prototype.toUpperCase, character by character.
UpperChar(c) ==
  CASE c = "a" -> "A"
    [] c = "b" -> "B"
    [] c = "t" -> "T"
    [] c = "x" -> "X"
    [] OTHER -> c

toUpperCase(s) == [i \in DOMAIN s |-> UpperChar(s[i])]

\* The collation weight of a character: punctuation before letters, letters
\* in alphabetical order, the lower-case letter before its upper-case one.
Weight(c) ==
  CASE c = "(" -> 0
    [] c = "." -> 1
    [] c = "a" -> 10
    [] c = "A" -> 11
    [] c = "b" -> 20
    [] c = "B" -> 21
    [] c = "t" -> 30
    [] c = "T" -> 31
    [] c = "x" -> 40
    [] c = "X" -> 41

RECURSIVE localeCompare(_, _)
\* String.prototype.localeCompare: negative, zero or positive.
localeCompare(a, b) ==
  IF a = <<>> /\ b = <<>> THEN 0
  ELSE IF a = <<>> THEN -1
  ELSE IF b = <<>> THEN 1
  ELSE IF Weight(Head(a)) < Weight(Head(b)) THEN -1
  ELSE IF Weight(Head(a)) > Weight(Head(b)) THEN 1
  ELSE localeCompare(Tail(a), Tail(b))

\* encodeURIComponent of one character: letters, digits and - _ . ! ~ * '
\* ( ) stay, another character becomes % and the two hex digits of its code.
EncodeChar(c) ==
  CASE c = " " -> <<"%", "2", "0">>
    [] c = "%" -> <<"%", "2", "5">>
    [] OTHER -> <<c>>

RECURSIVE encodeURIComponent(_)
encodeURIComponent(s) ==
  IF s = <<>> THEN <<>> ELSE EncodeChar(Head(s)) \o encodeURIComponent(Tail(s))

\* new Date(s).getTime(), in hours since 2024-01-01T00:00:00Z: the local
\* hour of the string less its offset from UTC.
getTime(s) == s.hour - s.offset

\* new RegExp(pattern, flags) throws a SyntaxError for an unterminated group.
RegExpThrows(pattern) == \E i \in DOMAIN pattern : pattern[i] = "("

\* Whether the compiled pattern matches the text at position k.
MatchesAt(text, pattern, flags, k) ==
  \A i \in DOMAIN pattern :
    IF flags = "i"
    THEN UpperChar(text[k + i - 1]) = UpperChar(pattern[i])
    ELSE text[k + i - 1] = pattern[i]

\* String.prototype.search: the index of the first match, or -1.
search(text, pattern, flags) ==
  LET hits == {k \in 1..(Len(text) - Len(pattern) + 1) : MatchesAt(text, pattern, flags, k)}
  IN  IF hits = {} THEN -1 ELSE (CHOOSE k \in hits : \A h \in hits : k <= h) - 1

---------------------------------------------------------------------------
(* Sorting *)

\* compare without the toUpperCase of the two names.
compareCaseSensitive(a, b, col, order) ==
  IF col = "filename"
  THEN IF order = "asc"
       THEN localeCompare(a[col], b[col])
       ELSE -localeCompare(a[col], b[col])
  ELSE IF order = "asc"
       THEN getTime(a[col]) - getTime(b[col])
       ELSE getTime(b[col]) - getTime(a[col])

\* compare with the timestamps compared as written, not as parsed.
compareAsWritten(a, b, col, order) ==
  IF col = "filename"
  THEN IF order = "asc"
       THEN localeCompare(toUpperCase(a[col]), toUpperCase(b[col]))
       ELSE -localeCompare(toUpperCase(a[col]), toUpperCase(b[col]))
  ELSE IF order = "asc"
       THEN a[col].hour - b[col].hour
       ELSE b[col].hour - a[col].hour

\* The comparator doSort hands to Array.prototype.sort for a column and a
\* direction.
compare(a, b, col, order) ==
  IF col = "filename"
  THEN IF order = "asc"
       THEN localeCompare(toUpperCase(a[col]), toUpperCase(b[col]))
       ELSE -localeCompare(toUpperCase(a[col]), toUpperCase(b[col]))
  ELSE IF order = "asc"
       THEN getTime(a[col]) - getTime(b[col])
       ELSE getTime(b[col]) - getTime(a[col])

RECURSIVE sort(_, _, _)
\* Array.prototype.sort: a stable sort by the comparator (insertion of each
\* element behind the elements that do not compare greater than it).
sort(arr, col, order) ==
  IF arr = <<>> THEN <<>>
  ELSE LET front == sort(SubSeq(arr, 1, Len(arr) - 1), col, order)
           x == arr[Len(arr)]
           k == Cardinality({i \in DOMAIN front : compare(front[i], x, col, order) <= 0})
       IN  SubSeq(front, 1, k) \o <<x>> \o SubSeq(front, k + 1, Len(front))

\* oldItems.sort(cmp): the sort without the copy.
sortInPlace(oldItems, col, order) ==
  [ret |-> sort(oldItems, col, order), oldItems |-> sort(oldItems, col, order)]

\* [...oldItems].sort(cmp): the sort works on a copy.  ret is the array
\* returned, oldItems the argument array as the call leaves it.
sortCopy(oldItems, col, order) ==
  [ret |-> sort(oldItems, col, order), oldItems |-> oldItems]

\* doSort, in a render whose sort state is (col, order) and whose prop is
\* base.
doSort(oldItems, base, col, order) ==
  IF order = "dirsFirst" THEN [ret |-> base, oldItems |-> oldItems]
  ELSE IF order \in {"asc", "desc"} THEN sortCopy(oldItems, col, order)
  ELSE [ret |-> <<>>, oldItems |-> oldItems]

\* nextSortOrder with the cycle of the filename column for every column.
nextSortOrderOneCycle(col, order) ==
  IF order = "dirsFirst" THEN "asc"
  ELSE IF order = "asc" THEN "desc"
  ELSE "dirsFirst"

\* nextSortOrder that never returns a timestamp column to dirsFirst.
nextSortOrderNoReturn(col, order) ==
  IF col = "filename" /\ order = "dirsFirst" THEN "asc"
  ELSE IF col = "filename" /\ order = "asc" THEN "desc"
  ELSE IF col = "filename" /\ order = "desc" THEN "dirsFirst"
  ELSE IF order = "dirsFirst" THEN "desc"
  ELSE IF order = "desc" THEN "asc"
  ELSE "desc"

nextSortOrder(col, order) ==
  IF col = "filename" /\ order = "dirsFirst" THEN "asc"
  ELSE IF col = "filename" /\ order = "asc" THEN "desc"
  ELSE IF col = "filename" /\ order = "desc" THEN "dirsFirst"
  ELSE IF order = "dirsFirst" THEN "desc"
  ELSE IF order = "desc" THEN "asc"
  ELSE IF order = "asc" THEN "dirsFirst"
  ELSE "dirsFirst"

---------------------------------------------------------------------------
(* Filtering and the render of PageItemList *)

\* Array.prototype.filter with the callback item.filename.search(reg) >= 0.
filter(arr, pattern, flags) ==
  LET keep == {i \in DOMAIN arr : search(arr[i].filename, pattern, flags) >= 0}
      pos(n) == CHOOSE i \in keep : Cardinality({j \in keep : j < i}) = n - 1
  IN  [n \in 1..Cardinality(keep) |-> arr[pos(n)]]

\* The render of part_002.  reg is built under try/catch; the filter is
\* skipped when reg is undefined.  st is the React state of the render.
PageItemList002(st, base) ==
  LET flags == IF st.caseSensitive THEN "" ELSE "i"
      regDefined == ~RegExpThrows(st.searchInput)
      sorted == doSort(base, base, st.sortCol, st.sortOrder)
  IN  [items |-> sorted.oldItems,
       filteredItems |-> IF st.searchInput # <<>> /\ regDefined
                         THEN filter(sorted.ret, st.searchInput, flags)
                         ELSE sorted.ret,
       regexWarning |-> ~regDefined,
       threw |-> FALSE,
       table |-> ~st.isSearchingEverywhere]

\* The render of part_000.  The search-everywhere view returns before the
\* list is sorted; the filter callback builds the RegExp itself, for every
\* item it is called on.
PageItemList000(st, base) ==
  LET flags == IF st.caseSensitive THEN "" ELSE "i"
      sorted == doSort(base, base, st.sortCol, st.sortOrder)
      throws == st.searchInput # <<>> /\ sorted.ret # <<>> /\ RegExpThrows(st.searchInput)
  IN  IF st.isSearchingEverywhere
      THEN [items |-> base, filteredItems |-> <<>>, regexWarning |-> FALSE,
            threw |-> FALSE, table |-> FALSE]
      ELSE [items |-> sorted.oldItems,
            filteredItems |-> IF throws THEN <<>>
                              ELSE IF st.searchInput # <<>>
                              THEN filter(sorted.ret, st.searchInput, flags)
                              ELSE sorted.ret,
            regexWarning |-> FALSE,
            threw |-> throws,
            table |-> ~throws]

---------------------------------------------------------------------------
(* Thumbnails (part_000) *)

ThumbnailNames == {"t1", "t2"}

ThumbnailData(name) == [type |-> "ThumbnailData", name |-> name, data |-> "webp"]

ThumbnailError(name) == [type |-> "ThumbnailError", name |-> name, data |-> "error"]

\* The null of a ThumbnailResponse | null.
NoResponse == [type |-> "null"]

\* The null that localStorage.getItem returns for a missing key.
NoItem == <<>>

\* JSON.stringify and JSON.parse, a JSON text being <<"json", value>> and
\* the text "null" being <<"null">>, which parses to null.
JSONstringify(v) == <<"json", v>>

JSONparse(text) == IF text = <<"null">> THEN NoResponse ELSE text[2]

\* window.localStorage.getItem(name) ?? "null"
getItemOrNull(store, name) == IF store[name] = NoItem THEN <<"null">> ELSE store[name]

\* The EventTarget a render of PageItemList makes.  The first render's is
\* 1; the targets of later renders are fresh and nothing dispatches on
\* them, so they all go by 2.
FirstTarget == 1

NewEventTarget(prev) == IF prev = 0 THEN FirstTarget ELSE 2

Basenames(arr) == {arr[i].basename : i \in DOMAIN arr}

ItemOf(arr, b) == arr[CHOOSE i \in DOMAIN arr : arr[i].basename = b]

\* No PageItemListRow instance for the item.  cached is history: whether
\* local storage held an entry for the row's thumbnail when it mounted.
Unmounted ==
  [mounted |-> FALSE, inView |-> FALSE, thumbnailResponse |-> NoResponse,
   listeners |-> {}, sends |-> 0, cached |-> FALSE]

\* MountRow with a useState initialiser that does not read local storage.
MountRowNoStorage(item, store) ==
  [mounted |-> TRUE, inView |-> FALSE, thumbnailResponse |-> NoResponse,
   listeners |-> {}, sends |-> 0,
   cached |-> item.thumbnail_name # NULL /\ store[item.thumbnail_name] # NoItem]

\* A PageItemListRow as its first render starts: useInView is false, the
\* useState initialiser reads local storage.
MountRow(item, store) ==
  [mounted |-> TRUE, inView |-> FALSE,
   thumbnailResponse |->
     IF item.thumbnail_name # NULL
     THEN JSONparse(getItemOrNull(store, item.thumbnail_name))
     ELSE NoResponse,
   listeners |-> {}, sends |-> 0,
   cached |-> item.thumbnail_name # NULL /\ store[item.thumbnail_name] # NoItem]

\* Whether the body of PageItemListRow calls socket.send in a render.
RowSends(item, row, sock) ==
  row.inView /\ item.thumbnail_name # NULL /\ row.thumbnailResponse = NoResponse /\ sock # NULL

\* One render of the body of PageItemListRow with the prop sock.
RenderRow(item, row, sock) ==
  [row EXCEPT !.sends = IF RowSends(item, row, sock) THEN @ + 1 ELSE @]

\* The effect of PageItemListRow, run after a render in which the prop
\* target has changed: a listener is added to target.
Subscribe(item, row, target) ==
  [row EXCEPT !.listeners = IF item.thumbnail_name # NULL THEN @ \cup {target} ELSE @]

\* WebSocket.send: queued for the server when the connection is open,
\* discarded when it is closed.
Transmit(w, name, n, state) ==
  IF state = "OPEN" THEN [w EXCEPT ![name] = @ + n] ELSE w

\* The rows after a render of PageItemList that lists shown, with the
\* props (target, sock); rows not listed are unmounted.
RenderRows(old, base, shown, store, target, sock) ==
  [b \in Basenames(base) |->
     IF b \in Basenames(shown)
     THEN Subscribe(ItemOf(base, b),
                    RenderRow(ItemOf(base, b),
                              IF old[b].mounted THEN old[b]
                              ELSE MountRow(ItemOf(base, b), store),
                              sock),
                    target)
     ELSE Unmounted]

\* How many of the rows of new called send(name) in the render from old.
SendsFor(old, new, base, name) ==
  Cardinality({b \in Basenames(base) :
                 /\ ItemOf(base, b).thumbnail_name = name
                 /\ new[b].mounted
                 /\ new[b].sends > (IF old[b].mounted THEN old[b].sends ELSE 0)})

---------------------------------------------------------------------------
(* The React state of PageItemList and its render *)

State ==
  [searchInput |-> searchInput, caseSensitive |-> caseSensitive,
   sortCol |-> sortCol, sortOrder |-> sortOrder,
   isSearchingEverywhere |-> isSearchingEverywhere,
   socket |-> socket, readyState |-> readyState]

\* The render of PageItemList in state st, by the page's generation.
PageItemList(st, base) ==
  IF variant = "part_002" THEN PageItemList002(st, base) ELSE PageItemList000(st, base)

\* What the render out of PageItemList and the renders newRows of its rows
\* leave behind.  A render that throws tears the tree down: the rows
\* unmount and the effect's cleanup closes the socket.
Rendered(st, out, newRows, target) ==
  /\ items' = out.items
  /\ filteredItems' = out.filteredItems
  /\ regexWarning' = out.regexWarning
  /\ renderFailed' = out.threw
  /\ IF variant = "part_002"
     THEN UNCHANGED <<rows, gotThumbnail, wire, readyState>>
     ELSE /\ rows' = newRows
          /\ gotThumbnail' = target
          /\ readyState' = IF out.threw THEN "CLOSED" ELSE st.readyState
          /\ wire' = [n \in ThumbnailNames |->
                        Transmit(wire, n, SendsFor(rows, newRows, out.items, n),
                                 st.readyState)[n]]
          /\ \A n \in ThumbnailNames : wire'[n] <= MaxWire
          /\ \A b \in DOMAIN newRows : newRows[b].sends <= MaxSends

\* A render of PageItemList in state st, with the renders of its rows.
Render(st) ==
  \E out \in {PageItemList(st, items)} :
    \E newRows \in {RenderRows(rows, out.items, IF out.table THEN out.filteredItems ELSE <<>>,
                               localStorage, NewEventTarget(gotThumbnail), st.socket)} :
      Rendered(st, out, newRows, NewEventTarget(gotThumbnail))

\* The end of an event handler: the state it has set, and the render.
Commit(st) ==
  /\ searchInput' = st.searchInput
  /\ caseSensitive' = st.caseSensitive
  /\ sortCol' = st.sortCol
  /\ sortOrder' = st.sortOrder
  /\ isSearchingEverywhere' = st.isSearchingEverywhere
  /\ socket' = st.socket
  /\ Render(st)

---------------------------------------------------------------------------
(* Event handlers of the list *)

LastN(s, n) == IF Len(s) <= n THEN s ELSE SubSeq(s, Len(s) - n + 1, Len(s))

\* onClick of the header of column col.
HeaderClick(col) ==
  /\ ~renderFailed
  /\ ~isSearchingEverywhere
  /\ LET st == IF col = sortCol
               THEN [State EXCEPT !.sortOrder = nextSortOrder(col, sortOrder)]
               ELSE [State EXCEPT !.sortCol = col,
                                  !.sortOrder = nextSortOrder(col, "dirsFirst")]
         click == [clicked |-> col, switched |-> col # sortCol,
                   col |-> st.sortCol, order |-> st.sortOrder]
     IN  /\ Commit(st)
         /\ clicks' = IF col = sortCol THEN LastN(Append(clicks, click), 4)
                      ELSE <<click>>
  /\ UNCHANGED <<variant, loaded, localStorage, written>>
  /\ UNCHANGED <<searchResultsLoading, searchError, searchResults, requests, issued, storedBy>>

\* onChange of the search box, to the text p.
OnChangeSearchInput(p) ==
  /\ ~renderFailed
  /\ p # searchInput
  /\ IF variant = "part_000" /\ p = <<>>
     THEN Commit([State EXCEPT !.searchInput = p, !.isSearchingEverywhere = FALSE])
     ELSE Commit([State EXCEPT !.searchInput = p])
  /\ UNCHANGED <<variant, loaded, clicks, localStorage, written>>
  /\ UNCHANGED <<searchResultsLoading, searchError, searchResults, requests, issued, storedBy>>

\* onChange of the case-sensitive checkbox.
OnChangeCaseSensitive ==
  /\ ~renderFailed
  /\ Commit([State EXCEPT !.caseSensitive = ~caseSensitive])
  /\ UNCHANGED <<variant, loaded, clicks, localStorage, written>>
  /\ UNCHANGED <<searchResultsLoading, searchError, searchResults, requests, issued, storedBy>>

---------------------------------------------------------------------------
(* The list of part_002 under header clicks, pattern edits and case toggles *)

\* The page after its first render, for the base list base.
Loaded(v, base, store) ==
  LET st == [searchInput |-> <<>>, caseSensitive |-> FALSE, sortCol |-> "filename",
             sortOrder |-> "dirsFirst", isSearchingEverywhere |-> FALSE,
             socket |-> NULL, readyState |-> "CONNECTING"]
      none == [b \in Basenames(base) |-> Unmounted]
  IN  /\ variant = v
      /\ items = base
      /\ loaded = base
      /\ searchInput = st.searchInput
      /\ caseSensitive = st.caseSensitive
      /\ sortCol = st.sortCol
      /\ sortOrder = st.sortOrder
      /\ isSearchingEverywhere = st.isSearchingEverywhere
      /\ filteredItems = base
      /\ regexWarning = FALSE
      /\ renderFailed = FALSE
      /\ clicks = <<>>
      /\ searchResultsLoading = FALSE
      /\ searchError = NULL
      /\ searchResults = <<>>
      /\ requests = <<>>
      /\ issued = 0
      /\ storedBy = [results |-> 0, error |-> 0]
      /\ socket = st.socket
      /\ readyState = st.readyState
      /\ localStorage = store
      /\ written = [n \in ThumbnailNames |-> 0]
      /\ wire = [n \in ThumbnailNames |-> 0]
      /\ gotThumbnail = IF v = "part_000" THEN FirstTarget ELSE 0
      /\ rows = IF v = "part_000"
                THEN RenderRows(none, base, base, store, FirstTarget, NULL)
                ELSE none

EmptyStore == [n \in ThumbnailNames |-> NoItem]

Init == \E base \in ItemLists : Loaded("part_002", base, EmptyStore)

Next ==
  \/ \E col \in {SortCols[i] : i \in DOMAIN SortCols} : HeaderClick(col)
  \/ \E p \in Patterns : OnChangeSearchInput(p)
  \/ OnChangeCaseSensitive

Spec == Init /\ [][Next]_vars

---------------------------------------------------------------------------
(* The socket and the rows of part_000 *)

Responses == {ThumbnailData(n) : n \in ThumbnailNames} \cup {ThumbnailError(n) : n \in ThumbnailNames}

\* socket.onopen that does not hand the socket to the rows.
SocketOnOpenNoSetSocket ==
  /\ variant = "part_000"
  /\ ~renderFailed
  /\ readyState = "CONNECTING"
  /\ Commit([State EXCEPT !.readyState = "OPEN"])
  /\ UNCHANGED <<variant, loaded, clicks, localStorage, written>>
  /\ UNCHANGED <<searchResultsLoading, searchError, searchResults, requests, issued, storedBy>>

\* socket.onopen: the connection is open, setSocket(socket).
SocketOnOpen ==
  /\ variant = "part_000"
  /\ ~renderFailed
  /\ readyState = "CONNECTING"
  /\ Commit([State EXCEPT !.socket = "ws", !.readyState = "OPEN"])
  /\ UNCHANGED <<variant, loaded, clicks, localStorage, written>>
  /\ UNCHANGED <<searchResultsLoading, searchError, searchResults, requests, issued, storedBy>>

\* The target socket.onmessage dispatches on: the gotThumbnail of the
\* render whose effect made the socket, which is the first render.
DispatchTarget == FirstTarget

\* The listener a row has added: setThumbnailResponse when the name is the
\* row's, and the render of the row that follows.
Listener(item, row, response, sock) ==
  IF response.name = item.thumbnail_name
  THEN RenderRow(item, [row EXCEPT !.thumbnailResponse = response], sock)
  ELSE row

\* socket.onmessage for the server's answer to a request on the wire.
SocketOnMessage(response) ==
  /\ variant = "part_000"
  /\ ~renderFailed
  /\ readyState = "OPEN"
  /\ wire[response.name] > 0
  /\ wire' = [wire EXCEPT ![response.name] = @ - 1]
  /\ localStorage' = IF response.type = "ThumbnailData"
                     THEN [localStorage EXCEPT ![response.name] = JSONstringify(response)]
                     ELSE localStorage
  /\ written' = IF response.type = "ThumbnailData"
                THEN [written EXCEPT ![response.name] = @ + 1]
                ELSE written
  /\ rows' = [b \in DOMAIN rows |->
                IF rows[b].mounted /\ DispatchTarget \in rows[b].listeners
                THEN Listener(ItemOf(items, b), rows[b], response, socket)
                ELSE rows[b]]
  /\ UNCHANGED <<listVars, searchVars, socket, readyState, gotThumbnail>>

\* The intersection observer reports the row of item b in view.
RowInView(b) ==
  /\ variant = "part_000"
  /\ ~renderFailed
  /\ b \in DOMAIN rows
  /\ rows[b].mounted /\ ~rows[b].inView
  /\ LET item == ItemOf(items, b)
         row == RenderRow(item, [rows[b] EXCEPT !.inView = TRUE], socket)
     IN  /\ rows' = [rows EXCEPT ![b] = row]
         /\ row.sends <= MaxSends
         /\ wire' = IF row.sends > rows[b].sends
                    THEN Transmit(wire, item.thumbnail_name, 1, readyState)
                    ELSE wire
         /\ \A n \in ThumbnailNames : wire'[n] <= MaxWire
  /\ UNCHANGED <<listVars, searchVars, socket, readyState, localStorage, written, gotThumbnail>>

\* The connection drops; the page has no onclose handler.
SocketDrop ==
  /\ variant = "part_000"
  /\ ~renderFailed
  /\ readyState \in {"CONNECTING", "OPEN"}
  /\ readyState' = "CLOSED"
  /\ UNCHANGED <<listVars, searchVars, rows, socket, localStorage, written, gotThumbnail, wire>>

\* What local storage may hold at page load: answers of earlier visits.
Stores ==
  {st \in [ThumbnailNames -> {NoItem} \cup {JSONstringify(ThumbnailData(n)) : n \in ThumbnailNames}] :
     \A n \in ThumbnailNames : st[n] # NoItem => st[n] = JSONstringify(ThumbnailData(n))}

PoolIndex(item) == CHOOSE k \in DOMAIN ItemPool : ItemPool[k] = item

\* The lists of the page with rows: the rows are keyed by basename, so
\* one order of each choice of items stands for all of them.
WsLists ==
  {l \in ItemLists :
     /\ Len(l) <= MaxRows /\ l # <<>>
     /\ \A i, j \in DOMAIN l : i < j => PoolIndex(l[i]) < PoolIndex(l[j])}

InitWs == \E base \in WsLists, store \in Stores : Loaded("part_000", base, store)

\* The patterns typed on the page with rows: none, one that hides b.txt
\* and B, and one that is not a regular expression.
WsPatterns == {<<>>, <<"a">>, <<"(">>}

\* Header clicks and case toggles are left to Spec: they re-render the
\* same keyed rows, as an edit of the pattern re-renders them.
NextWs ==
  \/ \E p \in WsPatterns : OnChangeSearchInput(p)
  \/ SocketOnOpen
  \/ \E r \in Responses : SocketOnMessage(r)
  \/ \E b \in Basenames(ItemPool) : RowInView(b)
  \/ SocketDrop

SpecWs == InitWs /\ [][NextWs]_vars

\* The browser runs socket.onopen once the connection is made, for as long
\* as the connection is being made and the page stands.
SpecWsFair == SpecWs /\ WF_vars(SocketOnOpen)

---------------------------------------------------------------------------
(* Search everywhere (part_002) *)

\* The keys of a keydown event that the handlers tell apart, and one other.
Keys == {"Enter", "Escape", "a"}

\* What the server may answer: result lists, and the text of an error body.
ResultLists == {<<>>, <<[path |-> "d/b.txt", kind |-> "File"]>>}

ServerTexts == {"regex parse error"}

\* The URL doSearchEverywhere builds, as its two query parameters.
SearchPath(input, sensitive) ==
  [regex |-> encodeURIComponent(input),
   flag |-> IF sensitive THEN "case_insensitive=false" ELSE "case_sensitive=true"]

\* clearSearchEverywhere, on the search state sv.
clearSearchEverywhere(sv) ==
  [sv EXCEPT !.isSearchingEverywhere = FALSE, !.searchResultsLoading = FALSE,
             !.searchError = NULL, !.searchResults = <<>>]

SearchState ==
  [isSearchingEverywhere |-> isSearchingEverywhere,
   searchResultsLoading |-> searchResultsLoading,
   searchError |-> searchError, searchResults |-> searchResults]

\* The end of a handler that has set the search state to sv and the
\* search box to (input, sensitive): the state, and the render.
CommitSearch(sv, input, sensitive) ==
  /\ searchResultsLoading' = sv.searchResultsLoading
  /\ searchError' = sv.searchError
  /\ searchResults' = sv.searchResults
  /\ Commit([State EXCEPT !.isSearchingEverywhere = sv.isSearchingEverywhere,
                          !.searchInput = input, !.caseSensitive = sensitive])

\* The events that reach a handler calling doSearchEverywhere.
ClickEvent == [type |-> "click", key |-> NULL, shiftKey |-> FALSE]

KeyEvent(key, shiftKey) == [type |-> "keydown", key |-> key, shiftKey |-> shiftKey]

\* doSearchEverywhere up to the call of fetch: the results are emptied,
\* loading is set, the mode is entered and a request is issued.  The
\* error is left as it is.  The field event of a request is history: the
\* event whose handler issued it.
doSearchEverywhere(event) ==
  /\ issued < MaxRequests
  /\ issued' = issued + 1
  /\ requests' = Append(requests, [id |-> issued + 1, stage |-> "fetch",
                                  path |-> SearchPath(searchInput, caseSensitive),
                                  event |-> event])
  /\ storedBy' = [storedBy EXCEPT !.results = 0]
  /\ CommitSearch([SearchState EXCEPT !.searchResults = <<>>,
                                      !.searchResultsLoading = TRUE,
                                      !.isSearchingEverywhere = TRUE],
                  searchInput, caseSensitive)
  /\ UNCHANGED <<variant, loaded, clicks, localStorage, written>>

\* onClick of the search-everywhere button, disabled for an empty pattern.
SearchEverywhereClick ==
  /\ variant = "part_002"
  /\ ~renderFailed
  /\ searchInput # <<>>
  /\ doSearchEverywhere(ClickEvent)

\* SearchboxKeyDown without the test of the key.
SearchboxKeyDownAnyKey(key, shiftKey) ==
  /\ variant = "part_002"
  /\ ~renderFailed
  /\ IF (~isSearchingEverywhere /\ shiftKey) \/ isSearchingEverywhere
     THEN doSearchEverywhere(KeyEvent(key, shiftKey))
     ELSE UNCHANGED vars

\* onKeyDown of the search box.  Escape only blurs the box and stops the
\* event before document.onkeydown.
SearchboxKeyDown(key, shiftKey) ==
  /\ variant = "part_002"
  /\ ~renderFailed
  /\ IF ((~isSearchingEverywhere /\ shiftKey) \/ isSearchingEverywhere) /\ key = "Enter"
     THEN doSearchEverywhere(KeyEvent(key, shiftKey))
     ELSE UNCHANGED vars

\* document.onkeydown for Escape pressed outside the search box.
DocumentEscape ==
  /\ variant = "part_002"
  /\ ~renderFailed
  /\ CommitSearch(clearSearchEverywhere(SearchState), <<>>, caseSensitive)
  /\ storedBy' = [results |-> 0, error |-> 0]
  /\ UNCHANGED <<variant, loaded, clicks, localStorage, written, requests, issued>>

\* onClick of the clear-search button.
ClearSearchClick ==
  /\ variant = "part_002"
  /\ ~renderFailed
  /\ CommitSearch(clearSearchEverywhere(SearchState), <<>>, FALSE)
  /\ storedBy' = [results |-> 0, error |-> 0]
  /\ UNCHANGED <<variant, loaded, clicks, localStorage, written, requests, issued>>

Without(reqs, i) == SubSeq(reqs, 1, i - 1) \o SubSeq(reqs, i + 1, Len(reqs))

\* The callback of fetch(path).then for the i-th outstanding request:
\* loading is cleared; an ok response goes on to response.json(), another
\* one empties the results and goes on to response.text().  What is
\* outstanding from then on is the promise of the response's body.
FetchResolve(i, ok) ==
  /\ variant = "part_002"
  /\ ~renderFailed
  /\ i \in DOMAIN requests /\ requests[i].stage = "fetch"
  /\ requests' = [requests EXCEPT ![i] = [id |-> requests[i].id,
                                          stage |-> IF ok THEN "json" ELSE "text"]]
  /\ storedBy' = IF ok THEN storedBy ELSE [storedBy EXCEPT !.results = requests[i].id]
  /\ CommitSearch([SearchState EXCEPT !.searchResultsLoading = FALSE,
                                      !.searchResults = IF ok THEN @ ELSE <<>>],
                  searchInput, caseSensitive)
  /\ UNCHANGED <<variant, loaded, clicks, localStorage, written, issued>>

\* The callback of fetch(path).catch: the request failed.
FetchReject(i) ==
  /\ variant = "part_002"
  /\ ~renderFailed
  /\ i \in DOMAIN requests /\ requests[i].stage = "fetch"
  /\ requests' = Without(requests, i)
  /\ storedBy' = [results |-> requests[i].id, error |-> requests[i].id]
  /\ CommitSearch([SearchState EXCEPT !.searchResultsLoading = FALSE,
                                      !.searchResults = <<>>,
                                      !.searchError = "couldn't search: Failed to fetch"],
                  searchInput, caseSensitive)
  /\ UNCHANGED <<variant, loaded, clicks, localStorage, written, issued>>

\* JsonResolve that drops the results of a request that is not the latest.
JsonResolveLatestOnly(i, results) ==
  /\ variant = "part_002"
  /\ ~renderFailed
  /\ i \in DOMAIN requests /\ requests[i].stage = "json"
  /\ requests' = Without(requests, i)
  /\ storedBy' = IF requests[i].id = issued
                 THEN [results |-> requests[i].id, error |-> 0]
                 ELSE storedBy
  /\ CommitSearch(IF requests[i].id = issued
                  THEN [SearchState EXCEPT !.searchResults = results, !.searchError = NULL]
                  ELSE SearchState,
                  searchInput, caseSensitive)
  /\ UNCHANGED <<variant, loaded, clicks, localStorage, written, issued>>

\* The callback of response.json().then, with the parsed results.
JsonResolve(i, results) ==
  /\ variant = "part_002"
  /\ ~renderFailed
  /\ i \in DOMAIN requests /\ requests[i].stage = "json"
  /\ requests' = Without(requests, i)
  /\ storedBy' = [results |-> requests[i].id, error |-> 0]
  /\ CommitSearch([SearchState EXCEPT !.searchResults = results, !.searchError = NULL],
                  searchInput, caseSensitive)
  /\ UNCHANGED <<variant, loaded, clicks, localStorage, written, issued>>

\* The callback of response.json().catch.
JsonReject(i) ==
  /\ variant = "part_002"
  /\ ~renderFailed
  /\ i \in DOMAIN requests /\ requests[i].stage = "json"
  /\ requests' = Without(requests, i)
  /\ storedBy' = [results |-> requests[i].id, error |-> requests[i].id]
  /\ CommitSearch([SearchState EXCEPT !.searchResults = <<>>,
                                      !.searchError = "invalid JSON from server"],
                  searchInput, caseSensitive)
  /\ UNCHANGED <<variant, loaded, clicks, localStorage, written, issued>>

\* TextResolve with a fixed message in place of the body.
TextResolveGeneric(i, body) ==
  /\ variant = "part_002"
  /\ ~renderFailed
  /\ i \in DOMAIN requests /\ requests[i].stage = "text"
  /\ requests' = Without(requests, i)
  /\ storedBy' = [storedBy EXCEPT !.error = requests[i].id]
  /\ CommitSearch([SearchState EXCEPT !.searchError = "search failed"],
                  searchInput, caseSensitive)
  /\ UNCHANGED <<variant, loaded, clicks, localStorage, written, issued>>

\* The callback of response.text().then: setSearchError(body).
TextResolve(i, body) ==
  /\ variant = "part_002"
  /\ ~renderFailed
  /\ i \in DOMAIN requests /\ requests[i].stage = "text"
  /\ requests' = Without(requests, i)
  /\ storedBy' = [storedBy EXCEPT !.error = requests[i].id]
  /\ CommitSearch([SearchState EXCEPT !.searchError = body], searchInput, caseSensitive)
  /\ UNCHANGED <<variant, loaded, clicks, localStorage, written, issued>>

\* The callback of response.text().catch.
TextReject(i) ==
  /\ variant = "part_002"
  /\ ~renderFailed
  /\ i \in DOMAIN requests /\ requests[i].stage = "text"
  /\ requests' = Without(requests, i)
  /\ storedBy' = [storedBy EXCEPT !.error = requests[i].id]
  /\ CommitSearch([SearchState EXCEPT !.searchError = "couldn't read response body"],
                  searchInput, caseSensitive)
  /\ UNCHANGED <<variant, loaded, clicks, localStorage, written, issued>>

\* What the render of part_002 shows below the search widget.
searchView ==
  IF ~isSearchingEverywhere THEN "table"
  ELSE IF searchResultsLoading THEN "loading"
  ELSE IF searchError # NULL THEN "error"
  ELSE IF Len(searchResults) = 0 THEN "empty"
  ELSE "results"

SearchLists == {<<>>, <<ItemPool[1]>>}

\* The patterns typed before a search everywhere: none, and one with a
\* character that encodeURIComponent escapes.
SearchPatterns == {<<>>, <<"a", " ">>}

InitSearch == \E base \in SearchLists : Loaded("part_002", base, EmptyStore)

NextSearch ==
  \/ \E p \in SearchPatterns : OnChangeSearchInput(p)
  \/ OnChangeCaseSensitive
  \/ SearchEverywhereClick
  \/ \E key \in Keys, shiftKey \in BOOLEAN : SearchboxKeyDown(key, shiftKey)
  \/ DocumentEscape
  \/ ClearSearchClick
  \/ \E i \in 1..MaxRequests, ok \in BOOLEAN : FetchResolve(i, ok)
  \/ \E i \in 1..MaxRequests : FetchReject(i)
  \/ \E i \in 1..MaxRequests, results \in ResultLists : JsonResolve(i, results)
  \/ \E i \in 1..MaxRequests : JsonReject(i)
  \/ \E i \in 1..MaxRequests, body \in ServerTexts : TextResolve(i, body)
  \/ \E i \in 1..MaxRequests : TextReject(i)

SpecSearch == InitSearch /\ [][NextSearch]_vars

---------------------------------------------------------------------------
(* Properties of sorting (Spec) *)

\* C1, as stated: a click on the header of a column that is not the
\* active one makes it the active column with sort order ascending.
C1_SwitchGivesAscending ==
  (Len(clicks) = 1 /\ clicks[1].switched)
    => (sortCol = clicks[1].clicked /\ sortOrder = "asc")

\* C1, amended: a click on the header of a column that is not the active
\* one makes it the active column, with sort order ascending for filename
\* and descending for created, modified and accessed.
C1_SwitchGivesFirstOfCycle ==
  (Len(clicks) = 1 /\ clicks[1].switched)
    => /\ sortCol = clicks[1].clicked
       /\ sortOrder = (IF clicks[1].clicked = "filename" THEN "asc" ELSE "desc")

C1_Witness ==
  /\ Len(clicks) = 1 /\ clicks[1].switched
  /\ clicks[1].clicked = "modified" /\ sortCol = "modified" /\ sortOrder = "desc"

\* C2: repeated clicks on the header of the active column leave the column
\* unchanged, visit the three orders once each in three clicks, and are
\* back at the starting order after the third.
C2_ThreeClickCycle ==
  /\ \A i \in DOMAIN clicks : clicks[i].col = clicks[i].clicked /\ clicks[i].col = sortCol
  /\ Len(clicks) > 0 => clicks[Len(clicks)].order = sortOrder
  /\ Len(clicks) = 4 =>
       /\ clicks[4].order = clicks[1].order
       /\ {clicks[2].order, clicks[3].order, clicks[4].order} = SortOrders

C2_Witness ==
  /\ Len(clicks) = 4 /\ ~clicks[1].switched
  /\ sortCol = "accessed" /\ clicks[1].order = "asc" /\ sortOrder = "asc"

IsPermutation(a, b) ==
  /\ Len(a) = Len(b)
  /\ \A x \in {b[i] : i \in DOMAIN b} :
       Cardinality({i \in DOMAIN a : a[i] = x}) = Cardinality({i \in DOMAIN b : b[i] = x})

PositionIn(arr, x) == CHOOSE i \in DOMAIN arr : arr[i] = x

FoldedCompare(x, y) == localeCompare(toUpperCase(x.filename), toUpperCase(y.filename))

\* C3: sorted by filename, ascending (descending), doSort returns a
\* permutation of the base items whose case-folded names do not decrease
\* (increase), with items of equal case-folded name in their base order;
\* [b.txt, A.txt] ascending gives [A.txt, b.txt].
C3_FilenameSort ==
  (sortCol = "filename" /\ sortOrder \in {"asc", "desc"}) =>
    LET ret == doSort(items, items, sortCol, sortOrder).ret
    IN  /\ IsPermutation(ret, loaded)
        /\ \A i, j \in DOMAIN ret :
             i < j => /\ sortOrder = "asc" => FoldedCompare(ret[i], ret[j]) <= 0
                      /\ sortOrder = "desc" => FoldedCompare(ret[i], ret[j]) >= 0
                      /\ FoldedCompare(ret[i], ret[j]) = 0
                           => PositionIn(loaded, ret[i]) < PositionIn(loaded, ret[j])
        /\ (loaded = <<ItemPool[1], ItemPool[2]>> /\ sortOrder = "asc")
             => ret = <<ItemPool[2], ItemPool[1]>>
        /\ searchInput = <<>> => filteredItems = ret

C3_Witness ==
  /\ sortCol = "filename" /\ sortOrder = "asc" /\ searchInput = <<>>
  /\ loaded = <<ItemPool[1], ItemPool[2], ItemPool[3]>>
  /\ filteredItems = <<ItemPool[2], ItemPool[3], ItemPool[1]>>

\* C4: sorted by a timestamp column, ascending (descending), doSort
\* returns a permutation of the base items whose parsed timestamps of that
\* column do not decrease (increase).
C4_TimestampSort ==
  (sortCol # "filename" /\ sortOrder \in {"asc", "desc"}) =>
    LET ret == doSort(items, items, sortCol, sortOrder).ret
    IN  /\ IsPermutation(ret, loaded)
        /\ \A i, j \in DOMAIN ret :
             i < j => /\ sortOrder = "asc" => getTime(ret[i][sortCol]) <= getTime(ret[j][sortCol])
                      /\ sortOrder = "desc" => getTime(ret[i][sortCol]) >= getTime(ret[j][sortCol])
        /\ searchInput = <<>> => filteredItems = ret

C4_Witness ==
  /\ sortCol = "created" /\ sortOrder = "asc" /\ searchInput = <<>>
  /\ loaded = <<ItemPool[1], ItemPool[2]>>
  /\ filteredItems = <<ItemPool[2], ItemPool[1]>>

\* C5: the base item array holds the items of page load in their order at
\* page load, and with the order dirsFirst the list before filtering is the
\* base list.
C5_BaseUntouched ==
  /\ items = loaded
  /\ sortOrder = "dirsFirst" =>
       /\ doSort(items, items, sortCol, sortOrder).ret = loaded
       /\ (searchInput = <<>> \/ regexWarning) => filteredItems = loaded

C5_Witness ==
  /\ Len(clicks) >= 3 /\ sortOrder = "dirsFirst" /\ sortCol = "filename"
  /\ loaded = <<ItemPool[1], ItemPool[2], ItemPool[3]>>
  /\ searchInput = <<>> /\ filteredItems = loaded

---------------------------------------------------------------------------
(* Properties of filtering and of the thumbnail rows (SpecWs) *)

\* C6: with a pattern that is not a valid regular expression the render
\* does not fail, a warning is shown, and the list shown is the whole
\* sorted list.
C6_InvalidPatternIsHarmless ==
  RegExpThrows(searchInput) =>
    /\ ~renderFailed
    /\ regexWarning
    /\ filteredItems = doSort(items, items, sortCol, sortOrder).ret

\* C7: a row whose thumbnail had an entry in local storage when the row
\* mounted has called socket.send no time.
C7_CachedRowNeverSends ==
  \A b \in DOMAIN rows : (rows[b].mounted /\ rows[b].cached) => rows[b].sends = 0

C7_Witness ==
  /\ socket # NULL /\ readyState = "OPEN" /\ gotThumbnail # FirstTarget
  /\ \E b \in DOMAIN rows :
       /\ rows[b].mounted /\ rows[b].cached /\ rows[b].inView
       /\ rows[b].sends = 0

\* C8: a row has sent no request before it has been in view, and has sent
\* its request at most once.
C8_AtMostOneRequest ==
  \A b \in DOMAIN rows :
    rows[b].mounted => /\ rows[b].sends > 0 => rows[b].inView
                       /\ rows[b].sends <= 1

\* C9: a response received on the socket is delivered to every row that
\* is mounted and has the response's thumbnail name; the row then holds the
\* response and shows no spinner.
C9_ResponseReachesMountedRows ==
  [][\A r \in Responses :
       SocketOnMessage(r) =>
         \A b \in DOMAIN rows :
           (rows[b].mounted /\ ItemOf(items, b).thumbnail_name = r.name)
             => rows'[b].thumbnailResponse = r]_vars

---------------------------------------------------------------------------
(* Properties of search everywhere (SpecSearch) *)

\* C10: while search-everywhere mode is active and a request has been
\* issued whose results or error are not yet stored, the view is the
\* loading indicator.
C10_LoadingWhileOutstanding ==
  (isSearchingEverywhere /\ requests # <<>>) => searchView = "loading"

\* C11: when the body text of a non-ok response to the only request issued
\* has been read, the error stored is that text, no results are stored, the
\* loading flag is off, and the search-everywhere view shows the error.
C11_ServerTextIsShown ==
  [][\A i \in 1..MaxRequests, body \in ServerTexts :
       (issued = 1 /\ TextResolve(i, body)) =>
         /\ searchError' = body
         /\ searchResults' = <<>>
         /\ ~searchResultsLoading'
         /\ isSearchingEverywhere' => searchView' = "error"]_vars

C11_Witness ==
  /\ issued = 1 /\ requests = <<>> /\ storedBy.error = 1
  /\ isSearchingEverywhere /\ searchView = "error"
  /\ searchError = "regex parse error" /\ searchResults = <<>>

\* The server's reading of the query string: the value of a parameter is
\* percent-decoded, and the flag asks for case-sensitive matching when it
\* says so by its name.
DecodeChar(hi, lo) ==
  CASE hi = "2" /\ lo = "0" -> " "
    [] hi = "2" /\ lo = "5" -> "%"

RECURSIVE decodeURIComponent(_)
decodeURIComponent(s) ==
  IF s = <<>> THEN <<>>
  ELSE IF Head(s) = "%"
       THEN <<DecodeChar(s[2], s[3])>> \o decodeURIComponent(SubSeq(s, 4, Len(s)))
       ELSE <<Head(s)>> \o decodeURIComponent(Tail(s))

AsksCaseSensitive(flag) == flag \in {"case_sensitive=true", "case_insensitive=false"}

AsksCaseInsensitive(flag) == flag \in {"case_sensitive=false", "case_insensitive=true"}

\* C12: the request a trigger issues asks for case-sensitive matching if
\* and only if the checkbox is checked when it is issued, and its regex
\* parameter decodes to the pattern in the search box.
C12_FlagFollowsCheckbox ==
  [][issued' = issued + 1 =>
       LET path == requests'[Len(requests')].path
       IN  /\ AsksCaseSensitive(path.flag) <=> caseSensitive
           /\ AsksCaseInsensitive(path.flag) <=> ~caseSensitive
           /\ decodeURIComponent(path.regex) = searchInput]_vars

\* C13, as stated: a request is issued only by a click on the
\* search-everywhere button or by Enter with Shift held in the search box.
C13_OnlyClickOrShiftEnter ==
  [][issued' = issued + 1 =>
       LET event == requests'[Len(requests')].event
       IN  event = ClickEvent \/ event = KeyEvent("Enter", TRUE)]_vars

\* C13, amended: a request is issued only by a click on the
\* search-everywhere button or by Enter in the search box, pressed with
\* Shift held or while search-everywhere mode is active.
C13_OnlyClickOrEnter ==
  [][issued' = issued + 1 =>
       LET event == requests'[Len(requests')].event
       IN  \/ event = ClickEvent
           \/ /\ event.type = "keydown" /\ event.key = "Enter"
              /\ event.shiftKey \/ isSearchingEverywhere]_vars

C13_Witness ==
  /\ Len(requests) = 2
  /\ requests[1].stage = "fetch" /\ requests[2].stage = "fetch"
  /\ requests[1].event = KeyEvent("Enter", TRUE)
  /\ requests[2].event = KeyEvent("Enter", FALSE)

\* A request issued after request id has settled: it is outstanding no more.
LaterSettled(id) ==
  \E later \in (id + 1)..issued : \A j \in DOMAIN requests : requests[j].id # later

\* C14: when a request settles after a request issued later than it has
\* settled, its outcome is stored over the later one's: the results and the
\* error are then those of the earlier request.
C14_EarlierOverwritesLater ==
  [][\A i \in 1..MaxRequests :
       (i \in DOMAIN requests /\ LaterSettled(requests[i].id)) =>
         /\ \A results \in ResultLists :
              JsonResolve(i, results) => (searchResults' = results /\ searchError' = NULL)
         /\ \A body \in ServerTexts :
              TextResolve(i, body) => searchError' = body
         /\ JsonReject(i) =>
              (searchResults' = <<>> /\ searchError' = "invalid JSON from server")
         /\ TextReject(i) => searchError' = "couldn't read response body"
         /\ FetchReject(i) =>
              (searchResults' = <<>> /\ searchError' = "couldn't search: Failed to fetch")]_vars

C14_Witness ==
  /\ issued = 2 /\ requests = <<>>
  /\ storedBy = [results |-> 1, error |-> 0]
  /\ isSearchingEverywhere /\ searchView = "results"

---------------------------------------------------------------------------
(* Further properties of the thumbnail rows (SpecWs) *)

\* C15: a row that holds a thumbnail response holds the same response
\* after every step in which it stays mounted.
C15_ResponseIsTerminal ==
  [][\A b \in DOMAIN rows :
       (rows[b].mounted /\ rows[b].thumbnailResponse # NoResponse /\ rows'[b].mounted)
         => rows'[b].thumbnailResponse = rows[b].thumbnailResponse]_vars

\* The rows that call socket.send in the step.
Senders ==
  {b \in DOMAIN rows :
     rows'[b].mounted /\ rows'[b].sends > (IF rows[b].mounted THEN rows[b].sends ELSE 0)}

\* C16: a row calls socket.send only when it has been in view and the
\* socket is open, that is, has opened and has not closed since.
C16_SendsOnlyWhenOpen ==
  [][\A b \in Senders : rows'[b].inView /\ socket' # NULL /\ readyState' = "OPEN"]_vars

\* C17: socket.onmessage has written no thumbnail name to local storage
\* more than once since page load, and no step changes an entry that
\* local storage holds.
C17_WrittenOnce ==
  [][/\ \A n \in ThumbnailNames : written'[n] <= 1
     /\ \A n \in ThumbnailNames :
          localStorage[n] # NoItem => localStorage'[n] = localStorage[n]]_vars

\* The row of item b is in view with a thumbnail that has no entry in
\* local storage, and the socket has not opened.
WaitsForSocket(b) ==
  /\ variant = "part_000" /\ ~renderFailed
  /\ b \in DOMAIN rows
  /\ rows[b].mounted /\ rows[b].inView /\ ~rows[b].cached
  /\ ItemOf(items, b).thumbnail_name # NULL
  /\ socket = NULL /\ readyState = "CONNECTING"

\* The row of item b has called send on the open socket, or what the claim
\* excludes has happened: the connection was lost before it opened, or
\* the user's edit of the pattern took the row off the page.
SentOrExcused(b) ==
  b \in DOMAIN rows =>
    \/ rows[b].mounted /\ rows[b].sends > 0 /\ socket # NULL
    \/ readyState = "CLOSED"
    \/ ~rows[b].mounted

\* C18: a row in view with an uncached thumbnail before the socket has
\* opened calls send when the socket opens, unless the socket does not open
\* or the user takes the row off the page first.  The items of the pool
\* with a thumbnail are b.txt and A.txt.
C18_SendsOnceOpen ==
  \A b \in {"b.txt", "A.txt"} : WaitsForSocket(b) ~> SentOrExcused(b)

C18_Witness ==
  \E b \in DOMAIN rows :
    /\ rows[b].mounted /\ rows[b].inView /\ ~rows[b].cached
    /\ rows[b].sends = 1 /\ rows[b].thumbnailResponse = NoResponse
    /\ readyState = "OPEN" /\ socket # NULL
    /\ wire[ItemOf(items, b).thumbnail_name] = 1
    /\ searchInput = <<>> /\ ~caseSensitive /\ gotThumbnail # FirstTarget

---------------------------------------------------------------------------
(* Further properties of search everywhere (SpecSearch) *)

\* C19: an error shown in search-everywhere mode was stored by the request
\* issued last.
C19_ErrorIsOfLatestRequest ==
  searchView = "error" => storedBy.error = issued

\* C20: no request is issued with the search box empty, and no request
\* issued has an empty regex parameter.
C20_NoRequestForEmptyPattern ==
  [][issued' = issued + 1 =>
       /\ searchInput # <<>>
       /\ requests'[Len(requests')].path.regex # <<>>]_vars

=============================================================================
